---- MODULE Spec2Model ----
(***************************************************************************)
(* Skeleton extraction from an Fbx scene graph                             *)
(* (src/animation/offline/fbx/fbx_skeleton.cc): CollectClusters,           *)
(* RecurseNode, IsTypeSelected and ExtractSkeleton.                        *)
(*                                                                         *)
(* The recursions are modelled with explicit call stacks, one action per   *)
(* call and per return.  Affine matrices (FbxAMatrix) are modelled by the  *)
(* affine maps x |-> a*x + b over the integers modulo Modulus, written     *)
(* <<a, b>>: a non commutative monoid whose elements with a = 0 are the    *)
(* degenerate (non invertible) matrices.                                   *)
(***************************************************************************)
EXTENDS Integers, Sequences, FiniteSets, TLC

VARIABLES
  scene,     \* the Fbx scene (read only): nodes, attributes, meshes, poses
  types,     \* OzzImporter::NodeType, the selection configuration
  skeleton,  \* RawSkeleton* _skeleton: root list and joint storage
  globals,   \* node_global computed for each joint, by joint index
  before,    \* the skeleton as it was when the current call was entered
  clusters,  \* ozz::Vector<FbxCluster*> clusters, local to ExtractSkeleton
  cstack,    \* call stack of CollectClusters
  cvisits,   \* number of CollectClusters calls per node in the current call
  stack,     \* call stack of RecurseNode
  visited,   \* nodes RecurseNode was called on in the current call, in order
  ret,       \* value returned by the last RecurseNode return
  pc,        \* position inside ExtractSkeleton
  result,    \* value returned by the last ExtractSkeleton call
  calls      \* number of ExtractSkeleton calls made so far

vars == <<scene, types, skeleton, globals, before, clusters, cstack, cvisits,
          stack, visited, ret, pc, result, calls>>

----------------------------------------------------------------------------
(* Bounds of the model.                                                    *)

MaxNodes == 4
MaxCalls == 2
MaxClassNodes == 2
MaxBindNodes == 2
MaxClusters == 2
MaxPoses == 2

----------------------------------------------------------------------------
(* FbxAMatrix: affine maps over the integers modulo Modulus.               *)

Modulus == 5

Matrices == (0 .. Modulus - 1) \X (0 .. Modulus - 1)

\* FbxAMatrix(): the identity.
IdentityMatrix == <<1, 0>>

\* A degenerate matrix (null scale).
Degenerate == <<0, 0>>

\* FbxAMatrix::operator*: Mul(A, B) applies B first, then A.
Mul(A, B) == <<(A[1] * B[1]) % Modulus, (A[1] * B[2] + A[2]) % Modulus>>

InvMod(a) == CHOOSE x \in 1 .. Modulus - 1 : (a * x) % Modulus = 1

\* FbxAMatrix::Inverse; only reached for invertible matrices.
Inverse(A) ==
  IF A[1] = 0 THEN Degenerate
  ELSE LET ai == InvMod(A[1])
       IN <<ai, (Modulus - ((ai * A[2]) % Modulus)) % Modulus>>

\* ozz::math::Transform::identity().
IdentityTransform == [translation |-> 0, scale |-> 1]

\* Converter::ConvertTransform: decomposes an affine matrix into translation
\* and scale; fails on a degenerate matrix.
ConvertTransform(m) ==
  IF m[1] = 0
  THEN [ok |-> FALSE, transform |-> IdentityTransform]
  ELSE [ok |-> TRUE, transform |-> [translation |-> m[2], scale |-> m[1]]]

----------------------------------------------------------------------------
(* FbxNodeAttribute::EType and the classifier.                             *)

NoAttr == "none"

GeometryTypes ==
  {"eMesh", "eNurbs", "ePatch", "eNurbsCurve", "eTrimNurbsSurface",
   "eBoundary", "eNurbsSurface", "eShape", "eSubDiv", "eLine"}

CameraTypes == {"eCameraStereo", "eCamera"}

OtherTypes ==
  {"eUnknown", "eNull", "eCameraSwitcher", "eOpticalReference",
   "eOpticalMarker", "eCachedEffect", "eLODGroup"}

ETypes ==
  {"eSkeleton", "eMarker", "eLight"} \cup GeometryTypes \cup CameraTypes
    \cup OtherTypes

\* A variant of IsTypeSelected without the early out of lines 46-48.
IsTypeSelectedNoAny(_types, _node_type) ==
  CASE _node_type = "eSkeleton" -> _types.skeleton
    [] _node_type = "eMarker" -> _types.marker
    [] _node_type \in GeometryTypes -> _types.geometry
    [] _node_type \in CameraTypes -> _types.camera
    [] _node_type = "eLight" -> _types.light
    [] OTHER -> FALSE

IsTypeSelected(_types, _node_type) ==
  IF _types.any THEN TRUE
  ELSE CASE _node_type = "eSkeleton" -> _types.skeleton
         [] _node_type = "eMarker" -> _types.marker
         [] _node_type \in GeometryTypes -> _types.geometry
         [] _node_type \in CameraTypes -> _types.camera
         [] _node_type = "eLight" -> _types.light
         [] OTHER -> FALSE

----------------------------------------------------------------------------
(* Read accessors of the scene.                                            *)

Nodes == 1 .. scene.n

\* FbxScene::GetRootNode.
RootNode == 1

\* FbxNode::GetChildCount and FbxNode::GetChild (0 based).
GetChildCount(node) == Len(scene.children[node])

GetChild(node, i) == scene.children[node][i + 1]

\* FbxNode::GetNodeAttribute: NoAttr stands for NULL.
GetNodeAttribute(node) == scene.attr[node]

\* FbxNode::EvaluateGlobalTransform.
EvaluateGlobalTransform(node) == scene.eval[node]

\* FbxNode::GetMesh is not NULL: the node's attribute is a mesh.
HasMesh(node) == scene.attr[node] = "eMesh"

\* The skin deformers of the node's mesh, each a sequence of clusters
\* (FbxMesh::GetDeformerCount, GetDeformer, FbxSkin::GetClusterCount,
\* GetCluster).
GetMesh(node) == scene.skins[node]

\* A NULL FbxCluster*.
NullCluster == [null |-> TRUE]

\* FbxScene::GetPoseCount and FbxScene::GetPose (0 based).
GetPoseCount == Len(scene.poses)

GetPose(i) == scene.poses[i + 1]

\* FbxPose::Find: 0 based index of the node's entry, -1 when absent.
RECURSIVE FindFrom(_, _, _)
FindFrom(entries, node, i) ==
  IF i > Len(entries) THEN -1
  ELSE IF entries[i].node = node THEN i - 1
  ELSE FindFrom(entries, node, i + 1)

Find(pose, node) == FindFrom(pose.entries, node, 1)

----------------------------------------------------------------------------
(* CollectClusters, lines 177-189: the clusters one node contributes.      *)

RECURSIVE SkinClusters(_, _, _)
SkinClusters(skin, cluster_index, _clusters) ==
  IF cluster_index >= Len(skin) THEN _clusters
  ELSE LET cluster == skin[cluster_index + 1]
       IN SkinClusters(skin, cluster_index + 1,
                       IF ~cluster.null THEN Append(_clusters, cluster)
                       ELSE _clusters)

RECURSIVE MeshClusters(_, _, _)
MeshClusters(fbx_mesh, deformer_index, _clusters) ==
  IF deformer_index >= Len(fbx_mesh) THEN _clusters
  ELSE MeshClusters(fbx_mesh, deformer_index + 1,
                    SkinClusters(fbx_mesh[deformer_index + 1], 0, _clusters))

\* A variant of PushNodeClusters that only reads the meshes of the nodes the
\* classifier selects.
PushSelectedNodeClusters(_node, _clusters) ==
  IF HasMesh(_node) /\ IsTypeSelected(types, GetNodeAttribute(_node))
  THEN MeshClusters(GetMesh(_node), 0, _clusters)
  ELSE _clusters

PushNodeClusters(_node, _clusters) ==
  IF HasMesh(_node) THEN MeshClusters(GetMesh(_node), 0, _clusters)
  ELSE _clusters

----------------------------------------------------------------------------
(* RecurseNode, lines 121-147: the bind pose of a node.                    *)

RECURSIVE ClusterScan(_, _, _)
ClusterScan(_node, _clusters, cluster_index) ==
  IF cluster_index >= Len(_clusters)
  THEN [node_global_found |-> FALSE, node_global |-> IdentityMatrix]
  ELSE LET cluster == _clusters[cluster_index + 1]
       IN IF cluster.link = _node
          THEN [node_global_found |-> TRUE, node_global |-> cluster.matrix]
          ELSE ClusterScan(_node, _clusters, cluster_index + 1)

RECURSIVE PoseScan(_, _, _)
PoseScan(_node, i, node_global) ==
  IF i >= GetPoseCount THEN node_global
  ELSE LET pose == GetPose(i)
       IN IF ~pose.null /\ pose.isBind
          THEN LET found_node == Find(pose, _node)
               IN IF found_node >= 0
                  THEN pose.entries[found_node + 1].matrix
                  ELSE PoseScan(_node, i + 1, node_global)
          ELSE PoseScan(_node, i + 1, node_global)

\* A variant of NodeGlobal that looks in the bind poses before the clusters.
NodeGlobalPoseFirst(_node, _clusters) ==
  LET c == ClusterScan(_node, _clusters, 0)
      evaluated == EvaluateGlobalTransform(_node)
      posed == PoseScan(_node, 0, evaluated)
  IN IF posed # evaluated THEN posed
     ELSE IF c.node_global_found THEN c.node_global
     ELSE evaluated

NodeGlobal(_node, _clusters) ==
  LET c == ClusterScan(_node, _clusters, 0)
  IN IF c.node_global_found THEN c.node_global
     ELSE PoseScan(_node, 0, EvaluateGlobalTransform(_node))

\* A variant of NodeLocal with the factors exchanged.
NodeLocalSwapped(_parent_global_inv, node_global) ==
  Mul(node_global, _parent_global_inv)

\* RecurseNode, line 149.
NodeLocal(_parent_global_inv, node_global) ==
  Mul(_parent_global_inv, node_global)

----------------------------------------------------------------------------
(* RecurseNode, lines 104-119: acceptance and joint allocation.            *)

\* Lines 104-106.
Accepted(_node) ==
  /\ GetNodeAttribute(_node) # NoAttr
  /\ IsTypeSelected(types, GetNodeAttribute(_node))

\* Lines 109-119: a new joint at the back of the parent's children, or of
\* the roots when _parent is NULL (0).  Joints are held in skel.joints and
\* referred to by index; the new joint's index is Len(skel.joints) + 1.
NewJoint(_node) ==
  [name |-> _node, transform |-> IdentityTransform, children |-> <<>>]

\* A variant of AddJoint that adds every joint to the roots.
AddJointToRoots(skel, _parent, _node) ==
  [roots |-> Append(skel.roots, Len(skel.joints) + 1),
   joints |-> Append(skel.joints, NewJoint(_node))]

AddJoint(skel, _parent, _node) ==
  LET this_joint == Len(skel.joints) + 1
      added == Append(skel.joints, NewJoint(_node))
  IN IF _parent # 0
     THEN [roots |-> skel.roots,
           joints |-> [added EXCEPT ![_parent].children =
                         Append(@, this_joint)]]
     ELSE [roots |-> Append(skel.roots, this_joint), joints |-> added]

\* Line 151: the converted transform is stored in the joint.
SetTransform(skel, this_joint, transform) ==
  [skel EXCEPT !.joints[this_joint].transform = transform]

\* RecurseReturn.
kError == "kError"

kSkeletonFound == "kSkeletonFound"

kNoSkeleton == "kNoSkeleton"

kNone == "none"

----------------------------------------------------------------------------
(* Scenes the extraction is run on.                                        *)

\* The trees over nodes 1..n rooted at 1: parent[k] < k, parent[1] = 0.
ParentFns(n) ==
  {p \in [1 .. n -> 0 .. n] : \A k \in 1 .. n : IF k = 1 THEN p[k] = 0
                                                 ELSE p[k] \in 1 .. k - 1}

RECURSIVE Ascending(_)
Ascending(S) ==
  IF S = {} THEN <<>>
  ELSE LET m == CHOOSE x \in S : \A y \in S : x <= y
       IN <<m>> \o Ascending(S \ {m})

\* The children of each node, in ascending order: every shape of ordered
\* tree is obtained for some p.
ChildLists(n, p) ==
  [k \in 1 .. n |-> Ascending({c \in 1 .. n : p[c] = k})]

Cluster(link, matrix) == [null |-> FALSE, link |-> link, matrix |-> matrix]

\* Matrices told apart by their source: scale 1 or 2 for evaluated
\* transforms, 3 for clusters, 4 for pose entries.
EvalMat(k) == <<1 + (k % 2), k % Modulus>>

ClusterMat(j) == <<3, j % Modulus>>

PoseMat(p, k) == <<4, (2 * p + k) % Modulus>>

EvalList(n, bad) ==
  [k \in 1 .. n |-> IF k = bad THEN Degenerate ELSE EvalMat(k)]

\* One skin per node, holding a NULL cluster and a cluster linked to the
\* next node (cyclically); only read for the nodes whose attribute is a mesh.
LinkedSkins(n) ==
  [k \in 1 .. n |-> <<<<NullCluster, Cluster((k % n) + 1, ClusterMat(k))>>>>]

TypeFlags == [any : BOOLEAN, skeleton : BOOLEAN, marker : BOOLEAN,
              geometry : BOOLEAN, camera : BOOLEAN, light : BOOLEAN]

NoType == [any |-> FALSE, skeleton |-> FALSE, marker |-> FALSE,
           geometry |-> FALSE, camera |-> FALSE, light |-> FALSE]

SkeletonOnly == [NoType EXCEPT !.skeleton = TRUE]

Fresh ==
  /\ skeleton = [roots |-> <<>>, joints |-> <<>>]
  /\ globals = <<>>
  /\ before = [roots |-> <<>>, joints |-> <<>>]
  /\ clusters = <<>>
  /\ cstack = <<>>
  /\ cvisits = [k \in Nodes |-> 0]
  /\ stack = <<>>
  /\ visited = <<>>
  /\ ret = kNone
  /\ pc = "idle"
  /\ result = FALSE
  /\ calls = 0

\* Hierarchies: every tree of at most MaxNodes nodes, each node without
\* attribute, a skeleton node or a (not selected) mesh carrying a cluster;
\* at most one node with a degenerate transform.
HierarchyAttrs == {NoAttr, "eSkeleton", "eMesh"}

InitHierarchy ==
  /\ \E n \in 1 .. MaxNodes :
       \E p \in ParentFns(n), bad \in 0 .. n :
         \E attr \in [1 .. n -> HierarchyAttrs] :
           scene = [n |-> n, children |-> ChildLists(n, p),
                    attr |-> attr, eval |-> EvalList(n, bad),
                    skins |-> LinkedSkins(n), poses |-> <<>>]
  /\ types = SkeletonOnly
  /\ Fresh

\* Classification: one node of every attribute type under every selection,
\* and trees of at most MaxClassNodes nodes over a sample of both.
SampleAttrs ==
  {NoAttr, "eSkeleton", "eMarker", "eMesh", "eCamera", "eLight", "eNull"}

SampleTypes ==
  {NoType, SkeletonOnly, [NoType EXCEPT !.marker = TRUE],
   [NoType EXCEPT !.geometry = TRUE], [NoType EXCEPT !.camera = TRUE],
   [NoType EXCEPT !.light = TRUE], [NoType EXCEPT !.any = TRUE],
   [SkeletonOnly EXCEPT !.any = TRUE]}

InitClassify ==
  /\ \E n \in 1 .. MaxClassNodes :
       \E p \in ParentFns(n), bad \in 0 .. n :
         \E attr \in [1 .. n -> IF n = 1 THEN ETypes \cup {NoAttr}
                                ELSE SampleAttrs] :
           /\ scene = [n |-> n, children |-> ChildLists(n, p),
                       attr |-> attr, eval |-> EvalList(n, bad),
                       skins |-> LinkedSkins(n), poses |-> <<>>]
           /\ types \in (IF n = 1 THEN TypeFlags ELSE SampleTypes)
  /\ Fresh

\* Bind poses: trees of at most MaxBindNodes nodes, all selected, the last
\* one a mesh with a degenerate evaluated transform that carries at most
\* MaxClusters clusters in two skins; at most MaxPoses poses.
\* A cluster is chosen by its link (0: a NULL cluster).
ClusterLists(n) ==
  UNION {[1 .. len -> 0 .. n] : len \in 0 .. MaxClusters}

BindSkins(n, links) ==
  LET cl == [j \in 1 .. Len(links) |->
               IF links[j] = 0 THEN NullCluster
               ELSE Cluster(links[j], ClusterMat(j))]
  IN [k \in 1 .. n |->
        IF k # n THEN <<>>
        ELSE IF cl = <<>> THEN <<<<>>, <<>>>>
        ELSE <<<<Head(cl)>>, Tail(cl)>>]

\* A pose is chosen by its kind: -1 a pose of every node that is not a bind
\* pose, 0 a bind pose of every node (last node first), k > 0 a bind pose
\* of node k alone.  FbxScene::GetPose gives no NULL pose for an index
\* below GetPoseCount.
PoseLists(n) ==
  UNION {[1 .. len -> -1 .. n] : len \in 0 .. MaxPoses}

Entry(p, k) == [node |-> k, matrix |-> PoseMat(p, k)]

BindPoses(n, kinds) ==
  [p \in 1 .. Len(kinds) |->
     IF kinds[p] <= 0
     THEN [null |-> FALSE, isBind |-> kinds[p] = 0,
           entries |-> [j \in 1 .. n |-> Entry(p, n + 1 - j)]]
     ELSE [null |-> FALSE, isBind |-> TRUE,
           entries |-> <<Entry(p, kinds[p])>>]]

SkeletonAndGeometry == [SkeletonOnly EXCEPT !.geometry = TRUE]

InitBind ==
  /\ \E n \in 1 .. MaxBindNodes :
       \E p \in ParentFns(n), links \in ClusterLists(n),
          kinds \in PoseLists(n) :
         scene = [n |-> n, children |-> ChildLists(n, p),
                  attr |-> [k \in 1 .. n |->
                              IF k = n THEN "eMesh" ELSE "eSkeleton"],
                  eval |-> EvalList(n, n),
                  skins |-> BindSkins(n, links),
                  poses |-> BindPoses(n, kinds)]
  /\ types = SkeletonAndGeometry
  /\ Fresh

----------------------------------------------------------------------------
(* Call stacks.                                                            *)

Top(s) == s[Len(s)]

Pop(s) == SubSeq(s, 1, Len(s) - 1)

\* The caller's loop variable i is advanced before the callee's frame is
\* pushed: it is the index of the next child to recurse into.
Advance(s) == [s EXCEPT ![Len(s)].i = @ + 1]

CollectFrame(_node) == [node |-> _node, i |-> 0]

\* A RecurseNode frame once lines 100-160 have run: _parent and
\* _parent_global_inv are the values the children are called with.
RecurseFrame(_node, _parent, _parent_global_inv, skeleton_found) ==
  [node |-> _node, parent |-> _parent, pinv |-> _parent_global_inv,
   i |-> 0, skeleton_found |-> skeleton_found]

\* RecurseNode, line 173.
FoundReturn(skeleton_found) ==
  IF skeleton_found THEN kSkeletonFound ELSE kNoSkeleton

\* A variant of MergeFound that assigns instead of accumulating.
MergeFoundOverwrite(skeleton_found, r) == r = kSkeletonFound

\* RecurseNode, line 170.
MergeFound(skeleton_found, r) == skeleton_found \/ (r = kSkeletonFound)

\* ExtractSkeleton, lines 207-214.
ExtractResult(r) ==
  IF r = kNoSkeleton THEN FALSE
  ELSE IF r = kError THEN FALSE
  ELSE TRUE

----------------------------------------------------------------------------
(* RecurseNode, lines 100-160, run on entry of a call made from the frames *)
(* in base.  A failed conversion returns kError before any frame is kept.  *)

EnterNode(_node, _parent, _parent_global_inv, base) ==
  LET accepted == Accepted(_node)
      added == AddJoint(skeleton, _parent, _node)
      this_joint == Len(added.joints)
      node_global == NodeGlobal(_node, clusters)
      node_local == NodeLocal(_parent_global_inv, node_global)
      converted == ConvertTransform(node_local)
  IN /\ visited' = Append(visited, _node)
     /\ IF ~accepted
        THEN /\ skeleton' = skeleton
             /\ globals' = globals
             /\ stack' = Append(base, RecurseFrame(_node, _parent,
                                                   _parent_global_inv, FALSE))
             /\ ret' = kNone
        ELSE IF ~converted.ok
        THEN /\ skeleton' = added
             /\ globals' = Append(globals, node_global)
             /\ stack' = base
             /\ ret' = kError
        ELSE /\ skeleton' = SetTransform(added, this_joint,
                                         converted.transform)
             /\ globals' = Append(globals, node_global)
             /\ stack' = Append(base, RecurseFrame(_node, this_joint,
                                                   Inverse(node_global), TRUE))
             /\ ret' = kNone

----------------------------------------------------------------------------
(* Actions.                                                                *)

\* ExtractSkeleton is called (lines 199-203): CollectClusters is entered on
\* the root node.
ExtractSkeleton ==
  /\ pc = "idle"
  /\ calls < MaxCalls
  /\ calls' = calls + 1
  /\ before' = skeleton
  /\ clusters' = PushNodeClusters(RootNode, <<>>)
  /\ cstack' = <<CollectFrame(RootNode)>>
  /\ cvisits' = [k \in Nodes |-> IF k = RootNode THEN 1 ELSE 0]
  /\ visited' = <<>>
  /\ ret' = kNone
  /\ pc' = "collect"
  /\ UNCHANGED <<scene, types, skeleton, globals, stack, result>>

\* CollectClusters, lines 192-194 then 177-189 in the callee.
CollectCall ==
  /\ pc = "collect"
  /\ cstack # <<>>
  /\ Top(cstack).i < GetChildCount(Top(cstack).node)
  /\ LET child == GetChild(Top(cstack).node, Top(cstack).i)
     IN /\ cstack' = Append(Advance(cstack), CollectFrame(child))
        /\ clusters' = PushNodeClusters(child, clusters)
        /\ cvisits' = [cvisits EXCEPT ![child] = @ + 1]
  /\ UNCHANGED <<scene, types, skeleton, globals, before, stack, visited,
                 ret, pc, result, calls>>

\* CollectClusters, line 196: the loop over the children is over.
CollectReturn ==
  /\ pc = "collect"
  /\ cstack # <<>>
  /\ Top(cstack).i >= GetChildCount(Top(cstack).node)
  /\ cstack' = Pop(cstack)
  /\ pc' = IF Len(cstack) = 1 THEN "walk" ELSE "collect"
  /\ UNCHANGED <<scene, types, skeleton, globals, before, clusters, cvisits,
                 stack, visited, ret, result, calls>>

\* ExtractSkeleton, lines 204-206: RecurseNode is entered on the root node
\* with no parent and the identity.
RecurseRoot ==
  /\ pc = "walk"
  /\ stack = <<>>
  /\ ret = kNone
  /\ visited = <<>>
  /\ EnterNode(RootNode, 0, IdentityMatrix, <<>>)
  /\ pc' = IF ret' = kError THEN "return" ELSE "walk"
  /\ UNCHANGED <<scene, types, before, clusters, cstack, cvisits, result,
                 calls>>

\* RecurseNode, lines 163-166: recursion into the next child.
RecurseCall ==
  /\ pc = "walk"
  /\ stack # <<>>
  /\ ret = kNone
  /\ Top(stack).i < GetChildCount(Top(stack).node)
  /\ EnterNode(GetChild(Top(stack).node, Top(stack).i), Top(stack).parent,
               Top(stack).pinv, Advance(stack))
  /\ UNCHANGED <<scene, types, before, clusters, cstack, cvisits, pc, result,
                 calls>>

\* RecurseNode, line 173, and lines 167-170 in the caller.
RecurseReturn ==
  /\ pc = "walk"
  /\ stack # <<>>
  /\ ret = kNone
  /\ Top(stack).i >= GetChildCount(Top(stack).node)
  /\ IF Len(stack) = 1
     THEN /\ stack' = <<>>
          /\ ret' = FoundReturn(Top(stack).skeleton_found)
          /\ pc' = "return"
     ELSE /\ stack' = [Pop(stack) EXCEPT ![Len(stack) - 1].skeleton_found =
                         MergeFound(@, FoundReturn(Top(stack).skeleton_found))]
          /\ ret' = kNone
          /\ pc' = "walk"
  /\ UNCHANGED <<scene, types, skeleton, globals, before, clusters, cstack,
                 cvisits, visited, result, calls>>

\* A variant of ErrorReturn: the caller drops the error and goes on with
\* its loop.
ErrorIgnored ==
  /\ pc = "walk"
  /\ stack # <<>>
  /\ ret = kError
  /\ ret' = kNone
  /\ UNCHANGED <<scene, types, skeleton, globals, before, clusters, cstack,
                 cvisits, stack, visited, pc, result, calls>>

\* RecurseNode, lines 167-169: a callee returned kError, the caller returns
\* it at once.
ErrorReturn ==
  /\ pc = "walk"
  /\ stack # <<>>
  /\ ret = kError
  /\ stack' = Pop(stack)
  /\ pc' = IF Len(stack) = 1 THEN "return" ELSE "walk"
  /\ UNCHANGED <<scene, types, skeleton, globals, before, clusters, cstack,
                 cvisits, visited, ret, result, calls>>

\* ExtractSkeleton, lines 207-214.
ExtractReturn ==
  /\ pc = "return"
  /\ result' = ExtractResult(ret)
  /\ pc' = "idle"
  /\ UNCHANGED <<scene, types, skeleton, globals, before, clusters, cstack,
                 cvisits, stack, visited, ret, calls>>

Next ==
  \/ ExtractSkeleton
  \/ CollectCall
  \/ CollectReturn
  \/ RecurseRoot
  \/ RecurseCall
  \/ RecurseReturn
  \/ ErrorReturn
  \/ ExtractReturn

Spec == InitHierarchy /\ [][Next]_vars

SpecClassify == InitClassify /\ [][Next]_vars

SpecBind == InitBind /\ [][Next]_vars

----------------------------------------------------------------------------
(* Vocabulary of the properties.                                           *)

Range(s) == {s[j] : j \in 1 .. Len(s)}

Last(s) == s[Len(s)]

\* An ExtractSkeleton call has returned; it returned true.
Returned == pc = "idle" /\ calls > 0

Succeeded == Returned /\ result

AllJoints == 1 .. Len(skeleton.joints)

\* The joints and the roots the current call has added.
NewJoints == Len(before.joints) + 1 .. Len(skeleton.joints)

NewRoots == SubSeq(skeleton.roots, Len(before.roots) + 1, Len(skeleton.roots))

JointNode(j) == skeleton.joints[j].name

\* The joint whose child list holds joint j, 0 for a root.
JointParent(j) ==
  IF \E q \in AllJoints : j \in Range(skeleton.joints[q].children)
  THEN CHOOSE q \in AllJoints : j \in Range(skeleton.joints[q].children)
  ELSE 0

\* The scene parent of node k, 0 for the scene root.
SceneParent(k) ==
  IF \E q \in Nodes : k \in Range(scene.children[q])
  THEN CHOOSE q \in Nodes : k \in Range(scene.children[q])
  ELSE 0

\* The nearest accepted proper ancestor of node k, 0 when there is none.
RECURSIVE NearestAccepted(_)
NearestAccepted(k) ==
  LET q == SceneParent(k)
  IN IF q = 0 THEN 0
     ELSE IF Accepted(q) THEN q
     ELSE NearestAccepted(q)

\* The scene nodes in depth-first pre-order from node k.
RECURSIVE ScenePreorder(_)
RECURSIVE ScenePreorderList(_)
ScenePreorder(k) == <<k>> \o ScenePreorderList(scene.children[k])

ScenePreorderList(ks) ==
  IF ks = <<>> THEN <<>>
  ELSE ScenePreorder(Head(ks)) \o ScenePreorderList(Tail(ks))

AcceptedNodes == {k \in Nodes : Accepted(k)}

\* The nodes of the subtree of node k.
Subtree(k) == Range(ScenePreorder(k))

IsPrefix(s, t) == Len(s) <= Len(t) /\ s = SubSeq(t, 1, Len(s))

----------------------------------------------------------------------------
\* C1: whenever ExtractSkeleton returns false, the output skeleton is as it
\* was before the call: no joint of the aborted walk is left in it.
C1_NoPartialOnFailure == (Returned /\ ~result) => skeleton = before

----------------------------------------------------------------------------
\* C2: after a successful ExtractSkeleton every joint comes from an accepted
\* node, every accepted node has a joint made by the call, the parent of a
\* joint is the joint made from the nearest accepted proper ancestor of its
\* node, and a joint is a root exactly when its node has no such ancestor.
C2_NearestAcceptedParent ==
  Succeeded =>
    /\ \A j \in AllJoints :
         LET a == NearestAccepted(JointNode(j))
             q == JointParent(j)
         IN /\ Accepted(JointNode(j))
            /\ (j \in Range(skeleton.roots)) <=> (a = 0)
            /\ (a = 0) => (q = 0)
            /\ (a # 0) => (q # 0 /\ JointNode(q) = a)
            /\ (j \in NewJoints /\ q # 0) => q \in NewJoints
    /\ \A k \in AcceptedNodes :
         Cardinality({j \in NewJoints : JointNode(j) = k}) = 1

\* A joint attached past a mesh node that is not selected, under a root
\* joint whose node hangs below the attribute-less scene root.
C2_Witness ==
  /\ Succeeded
  /\ GetNodeAttribute(RootNode) = NoAttr
  /\ \E j \in NewJoints :
       LET k == JointNode(j)
       IN /\ GetNodeAttribute(SceneParent(k)) = "eMesh"
          /\ NearestAccepted(k) # 0
          /\ JointParent(j) \in Range(skeleton.roots)

----------------------------------------------------------------------------
\* C3 as stated: when the "any" flag is set, once ExtractSkeleton has
\* returned every attributed node has become a joint, no attribute-less
\* node has, and the number of joints in the output skeleton equals the
\* number of scene nodes that have an attribute.
AttributedNodes == {k \in Nodes : GetNodeAttribute(k) # NoAttr}

----------------------------------------------------------------------------
\* C4: after a successful extraction, the output forest listed in pre-order
\* is the accepted scene nodes in scene pre-order, and the joints of one
\* child list (or of the root list) are in the order of their nodes.
RECURSIVE JointPreorder(_)
RECURSIVE JointPreorderList(_)
JointPreorder(j) == <<j>> \o JointPreorderList(skeleton.joints[j].children)

JointPreorderList(js) ==
  IF js = <<>> THEN <<>>
  ELSE JointPreorder(Head(js)) \o JointPreorderList(Tail(js))

NodesOf(js) == [x \in 1 .. Len(js) |-> JointNode(js[x])]

AcceptedPreorder == SelectSeq(ScenePreorder(RootNode), Accepted)

\* The position of node k in the scene's pre-order.
Position(k) ==
  CHOOSE x \in 1 .. scene.n : ScenePreorder(RootNode)[x] = k

InSceneOrder(js) ==
  \A x, y \in 1 .. Len(js) :
    x < y => Position(JointNode(js[x])) < Position(JointNode(js[y]))

C4_ForestPreorder ==
  Succeeded =>
    /\ NodesOf(JointPreorderList(skeleton.roots)) = AcceptedPreorder
    /\ InSceneOrder(skeleton.roots)
    /\ \A j \in AllJoints : InSceneOrder(skeleton.joints[j].children)

\* What holds of the code: the same, of the roots the call appended.
C4_AppendedPreorder ==
  Succeeded =>
    /\ NodesOf(JointPreorderList(NewRoots)) = AcceptedPreorder
    /\ InSceneOrder(NewRoots)
    /\ \A j \in NewJoints : InSceneOrder(skeleton.joints[j].children)

----------------------------------------------------------------------------
\* C5: when no conversion fails, ExtractSkeleton returns false exactly when
\* no scene node is accepted, a success leaves at least one root, and the
\* result of every subtree walk is "found" iff the subtree's node is
\* accepted or a child subtree walked so far reported "found".
HoldsAccepted(k) == Subtree(k) \cap AcceptedNodes # {}

\* The children of frame d whose walk has returned.
ChildrenDone(d) ==
  IF d = Len(stack) THEN stack[d].i ELSE stack[d].i - 1

C5_FoundIffAccepted ==
  /\ (Returned /\ ret # kError) =>
       /\ result <=> (AcceptedNodes # {})
       /\ ret = (IF AcceptedNodes # {} THEN kSkeletonFound ELSE kNoSkeleton)
       /\ result => NewRoots # <<>>
  /\ (pc = "walk" /\ ret = kNone) =>
       \A d \in 1 .. Len(stack) :
         stack[d].skeleton_found <=>
           \/ Accepted(stack[d].node)
           \/ \E c \in 1 .. ChildrenDone(d) :
                HoldsAccepted(scene.children[stack[d].node][c])

\* "No skeleton found" on a scene whose nodes include attributed ones of a
\* type that is not selected.
C5_Witness ==
  /\ Returned
  /\ ret = kNoSkeleton
  /\ ~result
  /\ scene.n >= 3
  /\ \E k \in Nodes : GetNodeAttribute(k) = "eMesh"
  /\ skeleton.roots = <<>>

----------------------------------------------------------------------------
\* C7: once the conversion has failed for a joint, that joint is the last
\* one created and its node the last one visited, the walk has followed the
\* pre-order up to it, only its ancestors are left on the call stack, the
\* returned value is the error and ExtractSkeleton returns false.
ParentInverse(j) ==
  IF JointParent(j) = 0 THEN IdentityMatrix
  ELSE Inverse(globals[JointParent(j)])

ConversionFailed(j) ==
  ~ConvertTransform(Mul(ParentInverse(j), globals[j])).ok

C7_ErrorStopsWalk ==
  \A j \in NewJoints :
    ConversionFailed(j) =>
      /\ j = Len(skeleton.joints)
      /\ Last(visited) = JointNode(j)
      /\ IsPrefix(visited, ScenePreorder(RootNode))
      /\ ret = kError
      /\ \A d \in 1 .. Len(stack) :
           JointNode(j) \in Subtree(stack[d].node) \ {stack[d].node}
      /\ Returned => ~result

\* The failing node is at depth two or more, joints were found before it,
\* and a child of the scene root was never visited.
C7_Witness ==
  /\ Returned
  /\ ret = kError
  /\ ~result
  /\ Len(skeleton.joints) >= 2
  /\ SceneParent(Last(visited)) \notin {0, RootNode}
  /\ \E k \in Range(scene.children[RootNode]) : k \notin Range(visited)

----------------------------------------------------------------------------
\* C8: after a successful extraction the transform of every joint is the
\* conversion of inverse(world bind transform of the parent joint, identity
\* for a root) * (world bind transform of the joint), and the transforms
\* composed from the root down to the joint give its world bind transform.
MatrixOf(transform) == <<transform.scale, transform.translation>>

RECURSIVE ChainWorld(_)
ChainWorld(j) ==
  IF JointParent(j) = 0 THEN MatrixOf(skeleton.joints[j].transform)
  ELSE Mul(ChainWorld(JointParent(j)),
           MatrixOf(skeleton.joints[j].transform))

C8_TransformRoundTrip ==
  Succeeded =>
    \A j \in AllJoints :
      /\ MatrixOf(skeleton.joints[j].transform) =
           Mul(ParentInverse(j), globals[j])
      /\ ChainWorld(j) = globals[j]

\* A joint two levels down whose scene parent was skipped and whose
\* matrices do not commute.
C8_Witness ==
  /\ Succeeded
  /\ \E j \in NewJoints :
       /\ JointParent(j) # 0
       /\ JointParent(JointParent(j)) # 0
       /\ SceneParent(JointNode(j)) # JointNode(JointParent(j))
       /\ Mul(ParentInverse(j), globals[j]) #
            Mul(globals[j], ParentInverse(j))

----------------------------------------------------------------------------
\* C9: running the same extraction a second time on the same output
\* skeleton leaves it holding the forest the first run left.
C9_RepeatLeavesSameForest == (Returned /\ calls >= 2) => skeleton = before

----------------------------------------------------------------------------
\* C10: CollectClusters is called once on every node and has returned
\* before the walk creates a joint; from the start of the walk on, the
\* collection is the non-NULL clusters of every skin of every mesh node
\* (in scene pre-order, one per occurrence), whether or not the node is
\* selected, and stays so.
RECURSIVE Flatten(_)
Flatten(ss) == IF ss = <<>> THEN <<>> ELSE Head(ss) \o Flatten(Tail(ss))

NotNull(c) == ~c.null

ClustersOf(k) ==
  IF scene.attr[k] = "eMesh"
  THEN SelectSeq(Flatten(scene.skins[k]), NotNull)
  ELSE <<>>

SceneClusters ==
  Flatten([x \in 1 .. scene.n |-> ClustersOf(ScenePreorder(RootNode)[x])])

C10_CollectedBeforeWalk ==
  /\ pc = "collect" =>
       /\ skeleton = before
       /\ visited = <<>>
       /\ \A k \in Nodes : cvisits[k] <= 1
  /\ (pc \in {"walk", "return"} \/ Returned) =>
       /\ clusters = SceneClusters
       /\ \A k \in Nodes : cvisits[k] = 1

\* The walk is about to start and the collection holds a cluster carried by
\* a mesh node that is not selected and comes after the accepted node the
\* cluster links to.
C10_Witness ==
  /\ pc = "walk"
  /\ visited = <<>>
  /\ Len(clusters) >= 2
  /\ \E k \in Nodes, x \in 1 .. Len(clusters) :
       /\ HasMesh(k)
       /\ ~Accepted(k)
       /\ clusters[x] \in Range(ClustersOf(k))
       /\ Accepted(clusters[x].link)
       /\ Position(clusters[x].link) < Position(k)

----------------------------------------------------------------------------
\* C6: the world bind transform resolved for the node of every joint the
\* call creates (and so of every accepted node) is the link matrix of
\* the first cluster of the collection linked to the node; failing that,
\* the matrix of the node's entry in the first pose that is a bind pose and
\* holds the node; failing that, the node's evaluated global transform.
Min(S) == CHOOSE x \in S : \A y \in S : x <= y

LinkedClusters(k) == {x \in 1 .. Len(clusters) : clusters[x].link = k}

EntriesOf(p, k) ==
  {e \in 1 .. Len(scene.poses[p].entries) : scene.poses[p].entries[e].node = k}

BindPosesOf(k) ==
  {p \in 1 .. Len(scene.poses) :
     scene.poses[p].isBind /\ EntriesOf(p, k) # {}}

ExpectedBind(k) ==
  IF LinkedClusters(k) # {} THEN clusters[Min(LinkedClusters(k))].matrix
  ELSE IF BindPosesOf(k) # {}
  THEN LET p == Min(BindPosesOf(k))
       IN scene.poses[p].entries[Min(EntriesOf(p, k))].matrix
  ELSE scene.eval[k]

C6_BindFallbackChain ==
  \A j \in NewJoints : globals[j] = ExpectedBind(JointNode(j))

\* A joint whose node is linked by two clusters and also has an entry in a
\* bind pose.
C6_Witness ==
  /\ Succeeded
  /\ \E j \in NewJoints :
       /\ Cardinality(LinkedClusters(JointNode(j))) >= 2
       /\ BindPosesOf(JointNode(j)) # {}

\* Further cases of C6: the pose entry is used (the first bind pose holding
\* the node is not the first pose), and the evaluated transform is used.
C6_PoseCase ==
  /\ Succeeded
  /\ \E j \in NewJoints :
       /\ LinkedClusters(JointNode(j)) = {}
       /\ BindPosesOf(JointNode(j)) # {}
       /\ Min(BindPosesOf(JointNode(j))) > 1

C6_EvalCase ==
  /\ Succeeded
  /\ scene.poses # <<>>
  /\ \E j \in NewJoints :
       /\ LinkedClusters(JointNode(j)) = {}
       /\ BindPosesOf(JointNode(j)) = {}

====
